---- MODULE Spec2Model ----
(***************************************************************************)
(* The tokenizer of rcc (src/src/tokenizer.rs): the Scanner                *)
(* Tokenizer::next and the Line Assembler Tokenizer::tokenize, over the    *)
(* Source Buffer (CBuf), the Identifier Table (idmap) and the Punctuation  *)
(* Table (punct_map).                                                      *)
(*                                                                         *)
(* A byte is an integer 0..255, a text (a Rust String) is the sequence of  *)
(* its UTF-8 bytes.  The input is a String, hence valid UTF-8: it is a     *)
(* concatenation of characters, each one or two bytes long.                *)
(***************************************************************************)
EXTENDS Integers, Sequences, FiniteSets, TLC

VARIABLES content, buffer, idmap, next_id, tokenlist, line, next_ws, pc,
          scanned, prev

vars == <<content, buffer, idmap, next_id, tokenlist, line, next_ws, pc,
          scanned, prev>>

----------------------------------------------------------------------------
(* Bytes the code names.                                                   *)

NUL == 0
TAB == 9
LF == 10
SP == 32
DQUOTE == 34
SQUOTE == 39
STAR == 42
PLUS == 43
MINUS == 45
DOT == 46
SLASH == 47
BACKSLASH == 92
UPPER_E == 69
UPPER_P == 80
LOWER_E == 101
LOWER_P == 112

----------------------------------------------------------------------------
(* Bounds of the model.                                                    *)

\* The longest input, in characters, of the exhaustive part of the inputs.
MaxLen == 3

\* The characters the exhaustive inputs are made of: a e 1 space line-feed
\* / * < = + " ' \ ; ` and the two-byte character U+00E9.
\* No input holds a NUL byte: NUL is only the sentinel past the input.
Chars ==
  { <<97>>, <<101>>, <<49>>, <<SP>>, <<LF>>, <<SLASH>>, <<STAR>>, <<60>>,
    <<61>>, <<PLUS>>, <<DQUOTE>>, <<SQUOTE>>, <<BACKSLASH>>, <<59>>, <<96>>,
    <<195, 169>> }

RECURSIVE Strs(_)
Strs(n) ==
  IF n = 0 THEN { <<>> }
  ELSE LET S == Strs(n - 1) IN S \cup { s \o c : s \in S, c \in Chars }

\* Longer inputs, among them the examples of the specification's section 8.
Ex_a_ws_b == <<97, SP, SP, 98, LF>>                       \* a  b\n
Ex_blank_line == <<97, LF, LF, 98, LF>>                   \* a\n\nb\n
Ex_shl_assign == <<60, 60, 61, 120>>                      \* <<=x
Ex_escaped_quote == <<DQUOTE, 97, 98, BACKSLASH, DQUOTE, 99, DQUOTE>> \* "ab\"c"
Ex_exponent == <<49, LOWER_E, PLUS, 49, 48>>              \* 1e+10
Ex_hex == <<48, 120, 70, 70>>                             \* 0xFF
Ex_four == <<37, 58, 37, 58, 97>>                         \* %:%:a
Ex_same_ident == <<97, SP, 98, LF, 97, SP, 98>>           \* a b\na b
Ex_comment == <<97, SLASH, STAR, LF, STAR, SLASH, 98, LF>> \* a/*\n*/b\n
Ex_float == <<49, DOT, 49, UPPER_E, MINUS, 49, SP, 49, MINUS, 49>> \* 1.1E-1 1-1
Ex_tab == <<TAB, 97, TAB, 97, LF, TAB, LF, 97>>           \* \ta\ta\n\t\na
Ex_comment_lf == <<SLASH, STAR, STAR, SLASH, LF, 97>>     \* /**/\na

Examples ==
  { Ex_a_ws_b, Ex_blank_line, Ex_shl_assign, Ex_escaped_quote, Ex_exponent,
    Ex_hex, Ex_four, Ex_same_ident, Ex_comment, Ex_float, Ex_tab,
    Ex_comment_lf }

Inputs == Strs(MaxLen) \cup Examples

----------------------------------------------------------------------------
(* crate::ascii_util: the byte classes.                                    *)

is_letter(c) == c \in 65..90 \/ c \in 97..122 \/ c = 95

is_dec(c) == c \in 48..57

\* > < - | + & # ^ = ! / % * .
is_op_start(c) == c \in {62, 60, MINUS, 124, PLUS, 38, 35, 94, 61, 33, SLASH, 37, STAR, DOT}

----------------------------------------------------------------------------
(* crate::tok_maps::make_maps: the Punctuation Table, spelling -> kind.    *)

punct_map ==
  ( <<60>> :> "T_LT" @@ <<60, 60>> :> "T_LSHIFT" @@
    <<60, 60, 61>> :> "T_LSHIFT_EQUAL" @@ <<60, 61>> :> "T_LE" @@
    <<62>> :> "T_GT" @@ <<62, 62>> :> "T_RSHIFT" @@
    <<62, 62, 61>> :> "T_RSHIFT_EQUAL" @@ <<62, 61>> :> "T_GE" @@
    <<61>> :> "T_ASSIGN" @@ <<61, 61>> :> "T_EQ" @@
    <<33>> :> "T_EXCLAMATION" @@ <<33, 61>> :> "T_NE" @@
    <<PLUS>> :> "T_PLUS" @@ <<PLUS, PLUS>> :> "T_PLUS_PLUS" @@
    <<PLUS, 61>> :> "T_PLUS_EQUAL" @@
    <<MINUS>> :> "T_MINUS" @@ <<MINUS, MINUS>> :> "T_MINUS_MINUS" @@
    <<MINUS, 61>> :> "T_MINUS_EQUAL" @@ <<MINUS, 62>> :> "T_ARROW" @@
    <<SLASH>> :> "T_DIVIDE" @@ <<SLASH, 61>> :> "T_DIVIDE_EQUAL" @@
    <<STAR>> :> "T_TIMES" @@ <<STAR, 61>> :> "T_TIMES_EQUAL" @@
    <<37>> :> "T_PERCENT" @@ <<37, 61>> :> "T_PERCENT_EQUAL" @@
    <<37, 58>> :> "T_SHARP" @@ <<37, 58, 37, 58>> :> "T_SHARP_SHARP" @@
    <<35>> :> "T_SHARP" @@ <<35, 35>> :> "T_SHARP_SHARP" @@
    <<38>> :> "T_AND" @@ <<38, 38>> :> "T_AND_AND" @@
    <<124>> :> "T_OR" @@ <<124, 124>> :> "T_OR_OR" @@
    <<94>> :> "T_XOR" @@
    <<DOT>> :> "T_DOT" @@ <<DOT, DOT, DOT>> :> "T_DOT_DOT_DOT" @@
    <<58>> :> "T_COLON" @@ <<59>> :> "T_SEMI_COLON" @@ <<44>> :> "T_COMMA" @@
    <<40>> :> "T_LEFT_PAREN" @@ <<41>> :> "T_RIGHT_PAREN" @@
    <<123>> :> "T_LEFT_BRACE" @@ <<125>> :> "T_RIGHT_BRACE" )

PunctKinds == { punct_map[s] : s \in DOMAIN punct_map }

----------------------------------------------------------------------------
(* crate::tok_flags, crate::token.                                         *)

WS_BEFORE == "WS_BEFORE"
LF_AFTER == "LF_AFTER"
IS_AT_BOL == "IS_AT_BOL"

\* Option::None of Token.id
NoId == -1

Token(tp, val, ln, col) ==
  [tp |-> tp, val |-> val, pos |-> {}, id |-> NoId, line |-> ln, col |-> col]

make_eof == Token("TOKEN_EOF", <<>>, 0, 0)
make_ws == Token("TOKEN_WS", <<>>, 0, 0)
make_lf == Token("TOKEN_LF", <<>>, 0, 0)

Markers == {"TOKEN_WS", "TOKEN_LF", "TOKEN_COMMENT"}

\* String::push(b as char): a u8 becomes the char with that code point, and
\* the String holds the char's UTF-8 encoding.
push_char(sb, b) ==
  IF b < 128 THEN Append(sb, b)
  ELSE sb \o <<192 + (b \div 64), 128 + (b % 64)>>

----------------------------------------------------------------------------
(* crate::cbuf::CBuf over `content`.  offset counts the bytes consumed;    *)
(* eof is set once next() has reached the sentinel past the input.         *)

CBuf_create == [offset |-> 0, line |-> 1, column |-> 0, eof |-> FALSE]

peek_at(buf, k) ==
  IF buf.offset + k <= Len(content) THEN content[buf.offset + k] ELSE NUL

peek_4(buf) == <<peek_at(buf, 1), peek_at(buf, 2), peek_at(buf, 3), peek_at(buf, 4)>>

peek_1(buf) == peek_at(buf, 1)

is_eof(buf) == buf.eof

\* The byte CBuf::next returns.
next_byte(buf) == peek_at(buf, 1)

\* The buffer CBuf::next leaves.
cbuf_next(buf) ==
  IF buf.offset >= Len(content) THEN [buf EXCEPT !.eof = TRUE]
  ELSE IF content[buf.offset + 1] = LF
       THEN [buf EXCEPT !.offset = @ + 1, !.line = @ + 1, !.column = 0]
       ELSE [buf EXCEPT !.offset = @ + 1, !.column = @ + 1]

----------------------------------------------------------------------------
(* Tokenizer::build_sloc, Tokenizer::create_token: the location is taken   *)
(* from the buffer as it stands after the lexeme has been consumed.        *)

build_sloc(buf, sb) ==
  LET col == buf.column
      len == Len(sb)
  IN [line |-> buf.line, col |-> IF col >= len THEN col - len + 1 ELSE col]

create_token(tp, sb, buf) ==
  Token(tp, sb, build_sloc(buf, sb).line, build_sloc(buf, sb).col)

create_token_spec_loc(tp, sb, loc) == Token(tp, sb, loc.line, loc.col)

----------------------------------------------------------------------------
(* Tokenizer::next, the Scanner.  A call returns a token ("ret") or        *)
(* panics ("panic"); it always reports the buffer and the table it leaves. *)

Ret(tok, buf, idm, nid) ==
  [st |-> "ret", tok |-> tok, buf |-> buf, idmap |-> idm, next_id |-> nid,
   msg |-> ""]

Panic(msg, buf, idm, nid) ==
  [st |-> "panic", tok |-> make_eof, buf |-> buf, idmap |-> idm,
   next_id |-> nid, msg |-> msg]

\* A mutant of line_comment_loop: the end of the input ends the comment.
RECURSIVE line_comment_loop_eof_ends(_)
line_comment_loop_eof_ends(buf) ==
  IF is_eof(buf) THEN [st |-> "fall", buf |-> buf]
  ELSE LET tmp == next_byte(buf)
           b1 == cbuf_next(buf)
       IN IF tmp = LF \/ tmp = NUL THEN [st |-> "ret", buf |-> b1]
          ELSE line_comment_loop_eof_ends(b1)

\* The loop of the `//` branch: "ret" with the buffer past the line-feed,
\* "panic" at the sentinel, "fall" when the loop is left by its condition.
RECURSIVE line_comment_loop(_)
line_comment_loop(buf) ==
  IF is_eof(buf) THEN [st |-> "fall", buf |-> buf]
  ELSE LET tmp == next_byte(buf)
           b1 == cbuf_next(buf)
       IN IF tmp = LF THEN [st |-> "ret", buf |-> b1]
          ELSE IF tmp = NUL THEN [st |-> "panic", buf |-> b1]
          ELSE line_comment_loop(b1)

\* The loop of the `/*` branch.
RECURSIVE block_comment_loop(_, _)
block_comment_loop(buf, prevc) ==
  IF is_eof(buf) THEN [st |-> "fall", buf |-> buf]
  ELSE LET tmp == next_byte(buf)
           b1 == cbuf_next(buf)
       IN IF tmp = NUL THEN [st |-> "panic", buf |-> b1]
          ELSE IF tmp = SLASH /\ prevc = STAR THEN [st |-> "ret", buf |-> b1]
          ELSE block_comment_loop(b1, tmp)

\* A mutant of scan_comment: the `*` of the opening `/*` may close it.
scan_comment_star_open(buf, c1, c2) ==
  IF c1 = SLASH /\ c2 = SLASH
  THEN LET r == line_comment_loop(cbuf_next(cbuf_next(buf)))
       IN [st |-> r.st, buf |-> r.buf, tok |-> make_lf,
           msg |-> "no new-line at end of file..."]
  ELSE IF c1 = SLASH /\ c2 = STAR
  THEN LET r == block_comment_loop(cbuf_next(cbuf_next(buf)), STAR)
       IN [st |-> r.st, buf |-> r.buf, tok |-> make_ws,
           msg |-> "unclosed comment"]
  ELSE [st |-> "fall", buf |-> buf, tok |-> make_eof, msg |-> ""]

\* A mutant of scan_comment: comments are not looked for.
scan_comment_none(buf, c1, c2) ==
  [st |-> "fall", buf |-> buf, tok |-> make_eof, msg |-> ""]

\* The comment branches: "fall" (with the buffer they leave) when the
\* Scanner goes on to the branches below.
scan_comment(buf, c1, c2) ==
  IF c1 = SLASH /\ c2 = SLASH
  THEN LET r == line_comment_loop(cbuf_next(cbuf_next(buf)))
       IN [st |-> r.st, buf |-> r.buf, tok |-> make_lf,
           msg |-> "no new-line at end of file..."]
  ELSE IF c1 = SLASH /\ c2 = STAR
  THEN LET r == block_comment_loop(cbuf_next(cbuf_next(buf)), NUL)
       IN [st |-> r.st, buf |-> r.buf, tok |-> make_ws,
           msg |-> "unclosed comment"]
  ELSE [st |-> "fall", buf |-> buf, tok |-> make_eof, msg |-> ""]

RECURSIVE ident_loop(_, _)
ident_loop(buf, sb) ==
  IF is_eof(buf) THEN [buf |-> buf, sb |-> sb]
  ELSE LET peek1 == peek_1(buf)
       IN IF ~(is_letter(peek1) \/ is_dec(peek1)) THEN [buf |-> buf, sb |-> sb]
          ELSE ident_loop(cbuf_next(buf), push_char(sb, next_byte(buf)))

\* A mutant of intern: the record is stored without looking for an old one.
intern_always_insert(idm, nid, sb) ==
  [idmap |-> (sb :> nid) @@ idm, next_id |-> nid + 1]

\* if !idmap.contains_key(&sb) { idmap.insert(sb, shared_ptr::new(id)) }:
\* a new Ident instance is the next unused identity.
intern(idm, nid, sb) ==
  IF sb \in DOMAIN idm THEN [idmap |-> idm, next_id |-> nid]
  ELSE [idmap |-> idm @@ (sb :> nid), next_id |-> nid + 1]

\* A mutant of scan_identifier: the text is not interned.
scan_identifier_no_intern(buf, idm, nid) ==
  LET r == ident_loop(buf, <<>>)
  IN Ret(create_token("TOKEN_IDENT", r.sb, r.buf), r.buf, idm, nid)

scan_identifier(buf, idm, nid) ==
  LET r == ident_loop(buf, <<>>)
      t == intern(idm, nid, r.sb)
  IN Ret(create_token("TOKEN_IDENT", r.sb, r.buf), r.buf, t.idmap, t.next_id)

RECURSIVE next_n(_, _)
next_n(buf, n) == IF n = 0 THEN buf ELSE next_n(cbuf_next(buf), n - 1)

\* A mutant of scan_operator: the shortest spelling wins.
scan_operator_shortest(buf, c1, c2, c3, c4, idm, nid) ==
  LET one == push_char(<<>>, c1)
      two == push_char(one, c2)
      three == push_char(two, c3)
      four == push_char(three, c4)
      hit(sb, n) == Ret(create_token(punct_map[sb], sb, next_n(buf, n)),
                        next_n(buf, n), idm, nid)
  IN IF one \in DOMAIN punct_map THEN hit(one, 1)
     ELSE IF two \in DOMAIN punct_map THEN hit(two, 2)
     ELSE IF three \in DOMAIN punct_map THEN hit(three, 3)
     ELSE IF four \in DOMAIN punct_map THEN hit(four, 4)
     ELSE Panic("unknown operator", buf, idm, nid)

\* The operator branch: the 4-, 3-, 2-, 1-byte lookups, in that order.
scan_operator(buf, c1, c2, c3, c4, idm, nid) ==
  LET one == push_char(<<>>, c1)
      two == push_char(one, c2)
      three == push_char(two, c3)
      four == push_char(three, c4)
      hit(sb, n) == Ret(create_token(punct_map[sb], sb, next_n(buf, n)),
                        next_n(buf, n), idm, nid)
  IN IF four \in DOMAIN punct_map THEN hit(four, 4)
     ELSE IF three \in DOMAIN punct_map THEN hit(three, 3)
     ELSE IF two \in DOMAIN punct_map THEN hit(two, 2)
     ELSE IF one \in DOMAIN punct_map THEN hit(one, 1)
     ELSE Panic("unknown operator", buf, idm, nid)

is_exponent(c) == c = LOWER_E \/ c = UPPER_E \/ c = LOWER_P \/ c = UPPER_P

\* A mutant of number_loop: the sign after an exponent marker is left.
RECURSIVE number_loop_no_sign(_, _)
number_loop_no_sign(buf, sb) ==
  IF is_eof(buf) THEN [buf |-> buf, sb |-> sb]
  ELSE LET peekc == peek_1(buf)
       IN IF is_dec(peekc) \/ peekc = DOT \/ is_letter(peekc)
          THEN number_loop_no_sign(cbuf_next(buf), push_char(sb, next_byte(buf)))
          ELSE [buf |-> buf, sb |-> sb]

\* The loop of the number branch.
RECURSIVE number_loop(_, _)
number_loop(buf, sb) ==
  IF is_eof(buf) THEN [buf |-> buf, sb |-> sb]
  ELSE LET peekc == peek_1(buf)
           b1 == cbuf_next(buf)
           sb1 == push_char(sb, next_byte(buf))
       IN IF is_dec(peekc) THEN number_loop(b1, sb1)
          ELSE IF is_exponent(peekc)
          THEN LET peek2 == peek_1(b1)
               IN IF peek2 = MINUS \/ peek2 = PLUS
                  THEN number_loop(cbuf_next(b1), push_char(sb1, next_byte(b1)))
                  ELSE number_loop(b1, sb1)
          ELSE IF peekc = DOT \/ is_letter(peekc) THEN number_loop(b1, sb1)
          ELSE [buf |-> buf, sb |-> sb]

scan_number(buf, idm, nid) ==
  LET r == number_loop(buf, <<>>)
  IN Ret(create_token("TOKEN_NUMBER", r.sb, r.buf), r.buf, idm, nid)

\* The loop of the string/char branch: "done" when it is left by `break`
\* or by its condition, "panic" at the sentinel.
RECURSIVE string_loop(_, _, _)
string_loop(buf, sb, end) ==
  IF is_eof(buf) THEN [st |-> "done", buf |-> buf, sb |-> sb]
  ELSE LET nx == next_byte(buf)
           b1 == cbuf_next(buf)
       IN IF nx = NUL THEN [st |-> "panic", buf |-> b1, sb |-> sb]
          ELSE IF nx = end THEN [st |-> "done", buf |-> b1, sb |-> sb]
          ELSE IF nx = BACKSLASH
          THEN string_loop(cbuf_next(b1),
                           push_char(Append(sb, BACKSLASH), next_byte(b1)), end)
          ELSE string_loop(b1, push_char(sb, nx), end)

scan_string(buf, c1, idm, nid) ==
  LET end == next_byte(buf)
      b0 == cbuf_next(buf)
      loc == [line |-> b0.line, col |-> b0.column]
      r == string_loop(b0, <<>>, end)
      repr == push_char(push_char(<<>>, end) \o r.sb, end)
  IN IF r.st = "panic" THEN Panic("unclosed string", r.buf, idm, nid)
     ELSE IF end = DQUOTE
     THEN Ret(create_token_spec_loc("TOKEN_STRING", repr, loc), r.buf, idm, nid)
     ELSE Ret(create_token_spec_loc("TOKEN_CHAR", repr, loc), r.buf, idm, nid)

\* A mutant of scan_other: the error token is made without buffer.next().
scan_other_no_advance(buf, c1, idm, nid) ==
  LET one == push_char(<<>>, c1)
      b1 == cbuf_next(buf)
  IN IF one \in DOMAIN punct_map
     THEN Ret(create_token(punct_map[one], one, b1), b1, idm, nid)
     ELSE Ret(create_token("TOKEN_ERROR", one, buf), buf, idm, nid)

\* "other ASCII": a 1-byte table entry, else an error token.
scan_other(buf, c1, idm, nid) ==
  LET one == push_char(<<>>, c1)
      b1 == cbuf_next(buf)
  IN IF one \in DOMAIN punct_map
     THEN Ret(create_token(punct_map[one], one, b1), b1, idm, nid)
     ELSE Ret(create_token("TOKEN_ERROR", one, b1), b1, idm, nid)

\* The branches below the comment branches; c1..c4 are the bytes peeked at
\* the start of the call, buf is the buffer the comment branches left.
scan_rest(buf, c1, c2, c3, c4, idm, nid) ==
  IF is_letter(c1) THEN scan_identifier(buf, idm, nid)
  ELSE IF is_op_start(c1) THEN scan_operator(buf, c1, c2, c3, c4, idm, nid)
  ELSE IF is_dec(c1) THEN scan_number(buf, idm, nid)
  ELSE IF c1 = DQUOTE \/ c1 = SQUOTE THEN scan_string(buf, c1, idm, nid)
  ELSE scan_other(buf, c1, idm, nid)

next(buf, idm, nid) ==
  LET begin == peek_4(buf)
      c1 == begin[1]
      c2 == begin[2]
      c3 == begin[3]
      c4 == begin[4]
  IN IF c1 = NUL THEN Ret(make_eof, buf, idm, nid)
     ELSE IF c1 = SP \/ c1 = TAB THEN Ret(make_ws, cbuf_next(buf), idm, nid)
     ELSE IF c1 = LF THEN Ret(make_lf, cbuf_next(buf), idm, nid)
     ELSE LET cm == scan_comment(buf, c1, c2)
          IN IF cm.st = "ret" THEN Ret(cm.tok, cm.buf, idm, nid)
             ELSE IF cm.st = "panic" THEN Panic(cm.msg, cm.buf, idm, nid)
             ELSE scan_rest(cm.buf, c1, c2, c3, c4, idm, nid)

----------------------------------------------------------------------------
(* Tokenizer::tokenize, the Line Assembler: one iteration of its loop.     *)

\* if t.is(TOKEN_IDENT): the lookup that must not fail
ident_unresolved(t, idm) == t.tp = "TOKEN_IDENT" /\ t.val \notin DOMAIN idm

\* t.id = Option::from(shared_ptr::_cloneref(x))
resolve_ident(t, idm) ==
  IF t.tp = "TOKEN_IDENT" /\ t.val \in DOMAIN idm
  THEN [t EXCEPT !.id = idm[t.val]] ELSE t

\* if t.is(TOKEN_EOF): the pending line, then EOF itself
on_eof(tl, ln, t) == tl \o ln \o <<t>>

\* if next_ws { t.pos |= WS_BEFORE; next_ws = false; }
apply_next_ws(t, nws) ==
  IF nws THEN [t EXCEPT !.pos = @ \cup {WS_BEFORE}] ELSE t

\* A mutant of flush_flags: the first token gets begin-of-line only.
flush_flags_bol_only(ln) ==
  LET len == Len(ln)
      l1 == [ln EXCEPT ![len].pos = @ \cup {LF_AFTER}]
  IN [l1 EXCEPT ![1].pos = @ \cup {IS_AT_BOL}]

\* The flags of the first and the last token of a non-empty line.
flush_flags(ln) ==
  LET len == Len(ln)
      l1 == [ln EXCEPT ![len].pos = @ \cup {LF_AFTER}]
  IN [l1 EXCEPT ![1].pos = @ \cup {IS_AT_BOL, WS_BEFORE}]

\* A mutant of on_line_end: the last token of the line is not flagged.
on_line_end_no_lf_after(tl, ln, t) ==
  LET ln1 == IF t.tp = "TOKEN_COMMENT" THEN Append(ln, t) ELSE ln
  IN IF ln1 = <<>> THEN [tokenlist |-> tl, line |-> ln1]
     ELSE [tokenlist |->
             tl \o [ln1 EXCEPT ![1].pos = @ \cup {IS_AT_BOL, WS_BEFORE}],
           line |-> <<>>]

\* A mutant of on_line_end: the marker of a blank line is kept in the output.
on_line_end_keep_blank(tl, ln, t) ==
  LET ln1 == IF t.tp = "TOKEN_COMMENT" THEN Append(ln, t) ELSE ln
  IN IF ln1 = <<>> THEN [tokenlist |-> Append(tl, t), line |-> ln1]
     ELSE [tokenlist |-> tl \o flush_flags(ln1), line |-> <<>>]

\* if t.is(TOKEN_LF) || t.is(TOKEN_COMMENT)
on_line_end(tl, ln, t) ==
  LET ln1 == IF t.tp = "TOKEN_COMMENT" THEN Append(ln, t) ELSE ln
  IN IF ln1 = <<>> THEN [tokenlist |-> tl, line |-> ln1]
     ELSE [tokenlist |-> tl \o flush_flags(ln1), line |-> <<>>]

\* A mutant of on_ws: the `continue` is missing, the marker joins the line.
on_ws_push(ln, t) == [line |-> Append(ln, t), next_ws |-> TRUE]

\* if t.is(TOKEN_WS) { next_ws = true; continue; }
on_ws(ln, t) == [line |-> ln, next_ws |-> TRUE]

\* The body of the loop, given what the Scanner call returned (r.st = "ret").
loop_body(tl, ln, nws, r) ==
  LET t1 == resolve_ident(r.tok, r.idmap)
      t2 == apply_next_ws(t1, nws)
  IN IF ident_unresolved(r.tok, r.idmap)
     THEN [pc |-> "panicked", tokenlist |-> tl, line |-> ln, next_ws |-> nws]
     ELSE IF t1.tp = "TOKEN_EOF"
     THEN [pc |-> "returned", tokenlist |-> on_eof(tl, ln, t1),
           line |-> <<>>, next_ws |-> nws]
     ELSE IF t2.tp = "TOKEN_LF" \/ t2.tp = "TOKEN_COMMENT"
     THEN [pc |-> "loop", tokenlist |-> on_line_end(tl, ln, t2).tokenlist,
           line |-> on_line_end(tl, ln, t2).line, next_ws |-> FALSE]
     ELSE IF t2.tp = "TOKEN_WS"
     THEN [pc |-> "loop", tokenlist |-> tl, line |-> on_ws(ln, t2).line,
           next_ws |-> on_ws(ln, t2).next_ws]
     ELSE [pc |-> "loop", tokenlist |-> tl, line |-> Append(ln, t2),
           next_ws |-> FALSE]

----------------------------------------------------------------------------
(* The state machine.  scanned is the history of the tokens and markers    *)
(* the Scanner calls returned, prev the buffer before the last call.       *)

EmptyTable == [s \in {} |-> 0]

\* The tables a caller passes at construction: none, or one holding `a`
\* (tried with the inputs that spell an `a`, the others never look it up).
InitTables ==
  { [idmap |-> EmptyTable, next_id |-> 0],
    [idmap |-> (<<97>> :> 0), next_id |-> 1] }

TablesFor(input) ==
  IF \E i \in DOMAIN input : input[i] = 97 THEN InitTables
  ELSE { t \in InitTables : t.idmap = EmptyTable }

Init ==
  /\ content \in Inputs
  /\ buffer = CBuf_create
  /\ \E t \in TablesFor(content) : idmap = t.idmap /\ next_id = t.next_id
  /\ tokenlist = <<>>
  /\ line = <<>>
  /\ next_ws = FALSE
  /\ pc = "loop"
  /\ scanned = <<>>
  /\ prev = CBuf_create

Scan == next(buffer, idmap, next_id)

\* One iteration whose Scanner call returns a token of one of `kinds`.
Iteration(kinds) ==
  /\ pc = "loop"
  /\ ~is_eof(buffer)
  /\ Scan.st = "ret"
  /\ Scan.tok.tp \in kinds
  /\ ~ident_unresolved(Scan.tok, Scan.idmap)
  /\ LET b == loop_body(tokenlist, line, next_ws, Scan)
     IN /\ pc' = b.pc
        /\ tokenlist' = b.tokenlist
        /\ line' = b.line
        /\ next_ws' = b.next_ws
  /\ buffer' = Scan.buf
  /\ idmap' = Scan.idmap
  /\ next_id' = Scan.next_id
  /\ scanned' = Append(scanned, Scan.tok)
  /\ prev' = buffer
  /\ UNCHANGED content

ScanEof == Iteration({"TOKEN_EOF"})

ScanLineFeed == Iteration({"TOKEN_LF", "TOKEN_COMMENT"})

ScanWhitespace == Iteration({"TOKEN_WS"})

ScanToken ==
  Iteration({"TOKEN_IDENT", "TOKEN_NUMBER", "TOKEN_STRING", "TOKEN_CHAR",
             "TOKEN_ERROR"} \cup PunctKinds)

\* A fatal halt: a panic of the Scanner, or of the lookup in tokenize.
Halt ==
  /\ pc = "loop"
  /\ ~is_eof(buffer)
  /\ IF Scan.st = "panic" THEN scanned' = scanned
     ELSE /\ ident_unresolved(Scan.tok, Scan.idmap)
          /\ scanned' = Append(scanned, Scan.tok)
  /\ pc' = "panicked"
  /\ buffer' = Scan.buf
  /\ idmap' = Scan.idmap
  /\ next_id' = Scan.next_id
  /\ prev' = buffer
  /\ UNCHANGED <<content, tokenlist, line, next_ws>>

\* The loop is left by its condition: tokenize returns tokenlist as it is.
LoopExit ==
  /\ pc = "loop"
  /\ is_eof(buffer)
  /\ pc' = "returned"
  /\ UNCHANGED <<content, buffer, idmap, next_id, tokenlist, line, next_ws,
                 scanned, prev>>

Next == ScanEof \/ ScanLineFeed \/ ScanWhitespace \/ ScanToken \/ Halt \/ LoopExit

Spec == Init /\ [][Next]_vars

----------------------------------------------------------------------------
(* Vocabulary of the properties.                                           *)

Returned == pc = "returned"

LastScanned == scanned[Len(scanned)]

\* The last Scanner call returned (it did not panic); prev is the buffer it
\* started from, buffer the one it left.
CallReturned == scanned # <<>> /\ pc # "panicked" /\ prev.offset < Len(content)

\* The byte the last Scanner call started at, and the one after it.
StartByte == content[prev.offset + 1]
SecondByte == IF prev.offset + 2 <= Len(content) THEN content[prev.offset + 2] ELSE NUL

\* The input the last Scanner call consumed.
Consumed == SubSeq(content, prev.offset + 1, buffer.offset)

\* A token without what the Line Assembler adds to it.
Core(t) == [tp |-> t.tp, val |-> t.val, line |-> t.line, col |-> t.col]

CoreSeq(s) == [i \in DOMAIN s |-> Core(s[i])]

IsToken(t) == t.tp \notin Markers \cup {"TOKEN_EOF"}

\* The non-marker tokens the Scanner calls returned, in scan order.
ScannedTokens == SelectSeq(scanned, IsToken)

\* The returned sequence without its trailing end-of-file token.
WithoutEof(s) ==
  IF s # <<>> /\ s[Len(s)].tp = "TOKEN_EOF" THEN SubSeq(s, 1, Len(s) - 1) ELSE s

\* C1: for every non-empty input on which tokenize() returns, the returned
\* sequence holds exactly one end-of-file token, and it is its last element.
C1_EofOnceAndLast ==
  (Returned /\ content # <<>>) =>
    /\ tokenlist # <<>>
    /\ tokenlist[Len(tokenlist)].tp = "TOKEN_EOF"
    /\ \A i \in 1..(Len(tokenlist) - 1) : tokenlist[i].tp # "TOKEN_EOF"

\* C2: the returned sequence without its trailing end-of-file token is the
\* sequence of non-marker tokens the Scanner calls returned, in scan order.
C2_NothingLost ==
  Returned => CoreSeq(WithoutEof(tokenlist)) = CoreSeq(ScannedTokens)

\* C3: the sequence tokenize() returns holds no whitespace, line-feed or
\* comment marker.
C3_NoMarkers ==
  Returned => \A i \in DOMAIN tokenlist : tokenlist[i].tp \notin Markers

\* C3's case: a run that scanned whitespace and line-feed markers, and
\* returned tokens.
C3_Witness ==
  /\ Returned
  /\ Len(tokenlist) >= 3
  /\ \E i \in DOMAIN scanned : scanned[i].tp = "TOKEN_WS"
  /\ \E i \in DOMAIN scanned : scanned[i].tp = "TOKEN_LF"

\* The identifier tokens the Line Assembler holds, flushed or pending.
Assembled == tokenlist \o line

IdentShared ==
  \A i \in DOMAIN Assembled :
    Assembled[i].tp = "TOKEN_IDENT" =>
      /\ Assembled[i].val \in DOMAIN idmap
      /\ Assembled[i].id = idmap[Assembled[i].val]
      /\ \A j \in DOMAIN Assembled :
           (Assembled[j].tp = "TOKEN_IDENT" /\ Assembled[j].val = Assembled[i].val)
             => Assembled[j].id = Assembled[i].id

OneInstancePerText ==
  \A s1, s2 \in DOMAIN idmap : idmap[s1] = idmap[s2] => s1 = s2

TableStable ==
  \A s \in DOMAIN idmap : s \in DOMAIN idmap' /\ idmap'[s] = idmap[s]

\* C4: the Identifier Table holds one instance per text, a record once
\* stored (also one of the table passed at construction) is never replaced
\* or evicted, and identifier tokens of the same text reference the same
\* Identifier instance.
C4_IdentifierIdentity ==
  [](IdentShared /\ OneInstancePerText) /\ [][TableStable]_vars

\* C4's case: tokenize() returned two identifier tokens of the same text,
\* and the table passed at construction held a record.
C4_Witness ==
  /\ Returned
  /\ \E i, j \in DOMAIN tokenlist :
       /\ i < j
       /\ tokenlist[i].tp = "TOKEN_IDENT"
       /\ tokenlist[j].tp = "TOKEN_IDENT"
       /\ tokenlist[i].val = tokenlist[j].val
       /\ tokenlist[i].id = 0
  /\ \E s \in DOMAIN idmap : idmap[s] > 0

\* The prefixes of the input left at the start of the last Scanner call
\* that are entries of the Punctuation Table, by length.
PrefixLens ==
  { n \in 1..4 : /\ prev.offset + n <= Len(content)
                 /\ SubSeq(content, prev.offset + 1, prev.offset + n)
                      \in DOMAIN punct_map }

LongestLen == CHOOSE n \in PrefixLens : \A m \in PrefixLens : m <= n

OpensComment == StartByte = SLASH /\ (SecondByte = SLASH \/ SecondByte = STAR)

\* C5: at an operator-start byte that opens no comment the Scanner emits the
\* punctuation token of the longest of the 4-, 3-, 2-, 1-byte prefixes that
\* is a table entry and consumes that many bytes; `<<=x` is `<<=` then `x`.
C5_LongestMatch ==
  /\ (CallReturned /\ is_op_start(StartByte) /\ ~OpensComment /\ PrefixLens # {})
       => /\ buffer.offset = prev.offset + LongestLen
          /\ LastScanned.val = Consumed
          /\ LastScanned.tp = punct_map[Consumed]
  /\ (Returned /\ content = Ex_shl_assign)
       => /\ Len(tokenlist) = 3
          /\ tokenlist[1].tp = "T_LSHIFT_EQUAL" /\ tokenlist[1].val = <<60, 60, 61>>
          /\ tokenlist[2].tp = "TOKEN_IDENT" /\ tokenlist[2].val = <<120>>
          /\ tokenlist[3].tp = "TOKEN_EOF"

\* C5's case: `<<=x` has been tokenized, the 3-byte operator was matched
\* although its 1- and 2-byte prefixes are entries too.
C5_Witness ==
  /\ Returned
  /\ content = Ex_shl_assign
  /\ tokenlist[1].val = <<60, 60, 61>>
  /\ {<<60>>, <<60, 60>>} \subseteq DOMAIN punct_map

\* The place in scanned of the k-th non-marker token.
PosOf(k) ==
  CHOOSE j \in DOMAIN scanned :
    /\ IsToken(scanned[j])
    /\ Cardinality({i \in 1..j : IsToken(scanned[i])}) = k

\* The logical line of scanned[j] is ended by a line-feed marker.
LineTerminated(j) ==
  \E m \in (j + 1)..Len(scanned) : scanned[m].tp = "TOKEN_LF"

\* No token stands between scanned[j] and the line-feed marker (or the
\* start of the input) before it.
FirstOfLine(j) ==
  \A i \in 1..(j - 1) :
    IsToken(scanned[i]) => \E m \in (i + 1)..(j - 1) : scanned[m].tp = "TOKEN_LF"

\* No token stands between scanned[j] and the line-feed marker after it.
LastOfLine(j) ==
  \E m \in (j + 1)..Len(scanned) :
    /\ scanned[m].tp = "TOKEN_LF"
    /\ \A i \in (j + 1)..(m - 1) : ~IsToken(scanned[i])

AfterWhitespace(j) == j > 1 /\ scanned[j - 1].tp = "TOKEN_WS"

LineFlags(j) ==
  (IF FirstOfLine(j) THEN {IS_AT_BOL, WS_BEFORE} ELSE {})
    \cup (IF LastOfLine(j) THEN {LF_AFTER} ELSE {})
    \cup (IF AfterWhitespace(j) THEN {WS_BEFORE} ELSE {})

\* C6: on a logical line ended by a line-feed marker the first token has
\* begin-of-line and whitespace-before, the last one line-feed-after, a token
\* after whitespace markers whitespace-before, and no other flag is set;
\* `a  b\n` gives a = {begin-of-line, whitespace-before} and
\* b = {whitespace-before, line-feed-after}.
C6_LineFlags ==
  /\ \A k \in DOMAIN tokenlist :
       (IsToken(tokenlist[k]) /\ LineTerminated(PosOf(k)))
         => tokenlist[k].pos = LineFlags(PosOf(k))
  /\ (Returned /\ content = Ex_a_ws_b)
       => /\ Len(tokenlist) = 3
          /\ tokenlist[1].val = <<97>>
          /\ tokenlist[1].pos = {IS_AT_BOL, WS_BEFORE}
          /\ tokenlist[2].val = <<98>>
          /\ tokenlist[2].pos = {WS_BEFORE, LF_AFTER}

\* C6's case: `a  b\n` has been tokenized and its line flushed.
C6_Witness ==
  /\ Returned
  /\ content = Ex_a_ws_b
  /\ Len(tokenlist) = 3
  /\ LF_AFTER \in tokenlist[2].pos

\* `a\n\nb\n` gives a, b and end-of-file.
BlankLineTokens ==
  /\ Len(tokenlist) = 3
  /\ tokenlist[1].tp = "TOKEN_IDENT" /\ tokenlist[1].val = <<97>>
  /\ tokenlist[2].tp = "TOKEN_IDENT" /\ tokenlist[2].val = <<98>>
  /\ tokenlist[3].tp = "TOKEN_EOF"

\* C7 as stated: for `a\n\nb\n`, a has begin-of-line and line-feed-after
\* and not whitespace-before; b has begin-of-line, whitespace-before and
\* line-feed-after.
C7_BlankLine_AsStated ==
  (Returned /\ content = Ex_blank_line)
    => /\ BlankLineTokens
       /\ tokenlist[1].pos = {IS_AT_BOL, LF_AFTER}
       /\ tokenlist[2].pos = {IS_AT_BOL, WS_BEFORE, LF_AFTER}

\* C7 as amended: for `a\n\nb\n`, a and b both have begin-of-line,
\* whitespace-before and line-feed-after, and the blank line leaves nothing.
C7_BlankLine ==
  (Returned /\ content = Ex_blank_line)
    => /\ BlankLineTokens
       /\ tokenlist[1].pos = {IS_AT_BOL, WS_BEFORE, LF_AFTER}
       /\ tokenlist[2].pos = {IS_AT_BOL, WS_BEFORE, LF_AFTER}

\* C7's case: `a\n\nb\n` has been tokenized; the Scanner returned three
\* line-feed markers, one of them for the blank line.
C7_Witness ==
  /\ Returned
  /\ content = Ex_blank_line
  /\ Cardinality({i \in DOMAIN scanned : scanned[i].tp = "TOKEN_LF"}) = 3
  /\ Len(tokenlist) = 3

\* C8: a terminated string or char literal is one token (string for `"`,
\* char for `'`) whose text is, byte for byte, the input consumed from the
\* opening to the closing delimiter.
C8_LiteralVerbatim ==
  (CallReturned /\ (StartByte = DQUOTE \/ StartByte = SQUOTE) /\ ~is_eof(buffer))
    => /\ LastScanned.tp = (IF StartByte = DQUOTE THEN "TOKEN_STRING" ELSE "TOKEN_CHAR")
       /\ LastScanned.val = Consumed
       /\ Len(Consumed) >= 2
       /\ Consumed[Len(Consumed)] = StartByte

InNumber(i, lo) ==
  \/ is_dec(content[i]) \/ is_letter(content[i]) \/ content[i] = DOT
  \/ /\ content[i] = PLUS \/ content[i] = MINUS
     /\ i > lo
     /\ is_exponent(content[i - 1])

\* C9: at a digit the Scanner emits one number token whose text is the
\* consumed spelling, the maximal run of digits, letters and `.` with a `+`
\* or `-` only directly after an exponent marker; `1e+10` and `0xFF` are one
\* number token each.
C9_NumberSpelling ==
  /\ (CallReturned /\ is_dec(StartByte))
       => /\ LastScanned.tp = "TOKEN_NUMBER"
          /\ LastScanned.val = Consumed
          /\ buffer.offset > prev.offset
          /\ \A i \in (prev.offset + 1)..buffer.offset : InNumber(i, prev.offset + 1)
          /\ buffer.offset < Len(content)
               => ~InNumber(buffer.offset + 1, prev.offset + 1)
  /\ (Returned /\ content \in {Ex_exponent, Ex_hex})
       => /\ Len(tokenlist) = 2
          /\ tokenlist[1].tp = "TOKEN_NUMBER"
          /\ tokenlist[1].val = content

\* C9's case: `1e+10` has been tokenized, the sign absorbed.
C9_Witness ==
  /\ Returned
  /\ content = Ex_exponent
  /\ tokenlist[1].tp = "TOKEN_NUMBER"
  /\ PLUS \in {tokenlist[1].val[i] : i \in DOMAIN tokenlist[1].val}

Unrecognized(c) ==
  /\ c \notin {NUL, SP, TAB, LF, DQUOTE, SQUOTE}
  /\ ~is_letter(c) /\ ~is_dec(c) /\ ~is_op_start(c)
  /\ <<c>> \notin DOMAIN punct_map

\* C10: an unrecognized byte gives one error token whose text is exactly
\* that byte, moves the cursor by one byte and does not halt the run, which
\* goes on from the byte after it.
C10_ErrorToken ==
  (CallReturned /\ Unrecognized(StartByte))
    => /\ LastScanned.tp = "TOKEN_ERROR"
       /\ LastScanned.val = <<StartByte>>
       /\ buffer.offset = prev.offset + 1
       /\ ~is_eof(buffer)
       /\ pc = "loop"

\* A Scanner call has been made; prev is the buffer it started from.
CallMade == (scanned # <<>> \/ pc = "panicked") /\ prev.offset < Len(content)

\* The place of the delimiter q that closes a literal whose body starts at
\* i (a backslash takes the byte after it along), 0 when there is none.
RECURSIVE CloserFrom(_, _)
CloserFrom(i, q) ==
  IF i > Len(content) THEN 0
  ELSE IF content[i] = q THEN i
  ELSE IF content[i] = BACKSLASH THEN CloserFrom(i + 2, q)
  ELSE CloserFrom(i + 1, q)

OpensLiteral == StartByte = DQUOTE \/ StartByte = SQUOTE

\* C11: an unterminated string or char literal is fatal, also when the input
\* ends right after a backslash: the run halts, no token is emitted for it.
C11_UnterminatedLiteralFatal ==
  (CallMade /\ OpensLiteral /\ CloserFrom(prev.offset + 2, StartByte) = 0)
    => pc = "panicked"

\* A `*/` whose `*` lies after the opening `/*` of the last Scanner call.
BlockCommentClosed ==
  \E i \in (prev.offset + 4)..Len(content) :
    content[i] = SLASH /\ content[i - 1] = STAR

OpensBlockComment == StartByte = SLASH /\ SecondByte = STAR

OpensLineComment == StartByte = SLASH /\ SecondByte = SLASH

\* C12: an unterminated block comment is fatal (`/*/` does not close): the
\* run halts, the Scanner returns nothing for it.
C12_UnterminatedBlockCommentFatal ==
  (CallMade /\ OpensBlockComment /\ ~BlockCommentClosed) => pc = "panicked"

\* C12's case: `/*/` has been scanned and the run has halted.
C12_Witness ==
  /\ content = <<SLASH, STAR, SLASH>>
  /\ pc = "panicked"
  /\ scanned = <<>>

\* C13: a line comment that meets the end of the input before a line-feed
\* is fatal: the run halts, the Scanner returns nothing for it.
C13_UnterminatedLineCommentFatal ==
  (CallMade /\ OpensLineComment
     /\ \A i \in (prev.offset + 3)..Len(content) : content[i] # LF)
    => pc = "panicked"

\* C13's case: `//a` has been scanned and the run has halted.
C13_Witness ==
  /\ content = <<SLASH, SLASH, 97>>
  /\ pc = "panicked"
  /\ scanned = <<>>

\* The Scanner call of the next iteration returns, and not at the end of
\* the input.
ScanReturns ==
  /\ pc = "loop"
  /\ ~is_eof(buffer)
  /\ Scan.st = "ret"
  /\ Scan.tok.tp # "TOKEN_EOF"

\* Such a call consumes at least one byte of the input.
ScanProgress ==
  ScanReturns => /\ buffer'.offset > buffer.offset
                 /\ buffer'.offset <= Len(content)
                 /\ scanned' = Append(scanned, Scan.tok)

Finished == pc = "returned" \/ pc = "panicked"

\* The kinds of token the iterations of the loop handle.
Kinds ==
  {"TOKEN_EOF", "TOKEN_LF", "TOKEN_COMMENT", "TOKEN_WS", "TOKEN_IDENT",
   "TOKEN_NUMBER", "TOKEN_STRING", "TOKEN_CHAR", "TOKEN_ERROR"} \cup PunctKinds

\* The loop can be left or can run an iteration: one of the actions of Next
\* is enabled.
CanStep ==
  /\ pc = "loop"
  /\ \/ is_eof(buffer)
     \/ Scan.st = "panic"
     \/ Scan.st = "ret" /\ Scan.tok.tp \in Kinds

\* An iteration ends the run or moves the cursor forward.
StepAdvances ==
  pc = "loop" => (pc' # "loop" \/ buffer'.offset > buffer.offset)

\* C14: every Scanner call that returns, other than at the end of the input,
\* consumes at least one byte and leaves the cursor past it, so tokenize()
\* makes at most one call per input byte and one more, and then returns or
\* halts: every iteration ends the run or moves the cursor, and the run is
\* never stuck before it has ended.
C14_ProgressAndTermination ==
  /\ [][ScanProgress /\ StepAdvances]_vars
  /\ [](Len(scanned) <= Len(content) + 1)
  /\ [](Finished \/ CanStep)

\* C14's case: a run of one call per byte of `a  b\n`, and the last one at
\* the end of the input, has returned.
C14_Witness ==
  /\ Returned
  /\ content = Ex_a_ws_b
  /\ Len(scanned) = Len(content) + 1
  /\ buffer.offset = Len(content)

\* C15: when the next two bytes are `//` or `/*` the Scanner call never
\* returns a punctuation token: it returns a line-feed marker (`//`), a
\* whitespace marker (`/*`), or the run halts.
C15_CommentBeforeOperator ==
  /\ (CallMade /\ OpensLineComment)
       => (pc = "panicked" \/ LastScanned = make_lf)
  /\ (CallMade /\ OpensBlockComment)
       => (pc = "panicked" \/ LastScanned = make_ws)

\* C15's case: the call that started at the `/*` of `a/*\n*/b\n` returned
\* a whitespace marker, although `/` is an entry of the Punctuation Table.
C15_Witness ==
  /\ content = Ex_comment
  /\ CallReturned
  /\ OpensBlockComment
  /\ LastScanned.tp = "TOKEN_WS"
  /\ <<SLASH>> \in DOMAIN punct_map

\* A whitespace marker was scanned and no non-marker token after it.
WhitespacePending ==
  \E i \in DOMAIN scanned :
    /\ scanned[i].tp = "TOKEN_WS"
    /\ \A j \in (i + 1)..Len(scanned) : scanned[j].tp \in Markers

\* Only markers, one of them a whitespace marker, stand between scanned[j]
\* and the token before it (or the start of the input).
AfterWhitespaceRun(j) ==
  \E i \in 1..(j - 1) :
    /\ scanned[i].tp = "TOKEN_WS"
    /\ \A m \in (i + 1)..(j - 1) : scanned[m].tp \in Markers

\* C16: the pending-whitespace flag is set exactly while a whitespace marker
\* has been scanned and no non-marker token since (line-feed and whitespace
\* markers leave it set), and the non-marker token that arrives next gets
\* whitespace-before.
C16_PendingWhitespaceCarried ==
  /\ pc = "loop" => (next_ws <=> WhitespacePending)
  /\ \A k \in DOMAIN Assembled :
       (IsToken(Assembled[k]) /\ AfterWhitespaceRun(PosOf(k)))
         => WS_BEFORE \in Assembled[k].pos

\* The Scanner call of this step returns a line-feed marker.
LineFeedArrives ==
  /\ pc = "loop"
  /\ ~is_eof(buffer)
  /\ Scan.st = "ret"
  /\ Scan.tok.tp = "TOKEN_LF"

\* Kind, text and flags of the tokens of s.
Shape(s) == [i \in DOMAIN s |-> [tp |-> s[i].tp, val |-> s[i].val, pos |-> s[i].pos]]

\* What `a\n` and `\na` tokenize to.
Shape_a_lf ==
  << [tp |-> "TOKEN_IDENT", val |-> <<97>>, pos |-> {IS_AT_BOL, WS_BEFORE, LF_AFTER}],
     [tp |-> "TOKEN_EOF", val |-> <<>>, pos |-> {}] >>

Shape_lf_a ==
  << [tp |-> "TOKEN_IDENT", val |-> <<97>>, pos |-> {}],
     [tp |-> "TOKEN_EOF", val |-> <<>>, pos |-> {}] >>

\* C17: a line-feed marker that arrives while the pending line is empty
\* leaves the output and the pending line as they are; one that directly
\* follows another line-feed marker leaves the pending-whitespace flag as it
\* is too, so a run of line-feeds acts as one: `a\n`, `a\n\n` and `a\n\n\n`
\* give the same kinds, texts and flags, and so do `\na` and `\n\na`.
C17_BlankLineDiscarded ==
  /\ [][(LineFeedArrives /\ line = <<>>)
          => (tokenlist' = tokenlist /\ line' = <<>>)]_vars
  /\ [][(LineFeedArrives /\ scanned # <<>> /\ LastScanned.tp = "TOKEN_LF")
          => (tokenlist' = tokenlist /\ line' = line /\ next_ws' = next_ws)]_vars
  /\ []((Returned /\ content \in {<<97, LF>>, <<97, LF, LF>>, <<97, LF, LF, LF>>})
          => Shape(tokenlist) = Shape_a_lf)
  /\ []((Returned /\ content \in {<<LF, 97>>, <<LF, LF, 97>>})
          => Shape(tokenlist) = Shape_lf_a)

\* C17's case: the second line-feed of `a\n\n` arrived after the line of a
\* had been emitted, and the output is still that line.
C17_Witness ==
  /\ content = <<97, LF, LF>>
  /\ Len(scanned) = 3
  /\ scanned[2].tp = "TOKEN_LF"
  /\ scanned[3].tp = "TOKEN_LF"
  /\ Len(tokenlist) = 1
  /\ tokenlist[1].pos = {IS_AT_BOL, WS_BEFORE, LF_AFTER}

\* The lookup of tokenize() failed: the run halted on an identifier token
\* whose text the Identifier Table does not hold.
LookupFailed ==
  pc = "panicked" /\ scanned # <<>> /\ ident_unresolved(LastScanned, idmap)

\* C18: the Identifier Table holds the text of every identifier token the
\* Scanner has returned, every identifier token the Line Assembler holds
\* carries the Identifier of its text, and the lookup of tokenize() never
\* fails.
C18_InternBeforeEmit ==
  /\ \A i \in DOMAIN scanned :
       scanned[i].tp = "TOKEN_IDENT" => scanned[i].val \in DOMAIN idmap
  /\ \A k \in DOMAIN Assembled :
       Assembled[k].tp = "TOKEN_IDENT"
         => /\ Assembled[k].id # NoId
            /\ Assembled[k].id = idmap[Assembled[k].val]
  /\ ~LookupFailed

\* C18's case: tokenize() returned an identifier token `e`, a text the table
\* passed at construction did not hold, with the Identifier interned for it.
C18_Witness ==
  /\ Returned
  /\ \E i \in DOMAIN tokenlist :
       /\ tokenlist[i].tp = "TOKEN_IDENT"
       /\ tokenlist[i].val = <<101>>
       /\ tokenlist[i].id # NoId
       /\ idmap[<<101>>] = tokenlist[i].id

\* The number of the line the p-th byte of the input stands on, and the
\* 1-based column of that byte on its line.
LineOf(p) == 1 + Cardinality({ i \in 1..(p - 1) : content[i] = LF })

ColumnOf(p) ==
  Cardinality({ i \in 1..p : \A m \in i..(p - 1) : content[m] # LF })

Located ==
  LastScanned.tp \in {"TOKEN_IDENT", "TOKEN_NUMBER", "TOKEN_ERROR"} \cup PunctKinds

\* C19: an identifier, number, punctuation or error token reports the line
\* and the 1-based column of its first byte, which is the cursor column
\* after the lexeme minus the text length plus one, and is at least 1.
C19_SourceLocation ==
  (CallReturned /\ Located)
    => /\ LastScanned.line = LineOf(prev.offset + 1)
       /\ LastScanned.col = ColumnOf(prev.offset + 1)
       /\ LastScanned.col = buffer.column - Len(LastScanned.val) + 1
       /\ LastScanned.col >= 1

\* The tokens scanned since the last line-feed marker.
SinceLineFeed ==
  { j \in DOMAIN scanned :
      /\ IsToken(scanned[j])
      /\ \A m \in (j + 1)..Len(scanned) : scanned[m].tp # "TOKEN_LF" }

\* The input holds no space and no tab: a whitespace marker is a comment.
NoBlanks == \A i \in DOMAIN content : content[i] # SP /\ content[i] # TAB

\* C20: the Scanner returns a whitespace marker for a terminated block
\* comment; the comment does not end the pending line, whatever its body
\* holds (the tokens scanned since the last line-feed marker are still
\* pending; in `a/*\n*/b\n` a has no line-feed-after and b no
\* begin-of-line); and the next non-marker token gets whitespace-before.
C20_BlockCommentIsWhitespace ==
  /\ (CallReturned /\ OpensBlockComment)
       => /\ LastScanned.tp = "TOKEN_WS"
          /\ BlockCommentClosed
          /\ pc = "loop" => (next_ws /\ Len(line) = Cardinality(SinceLineFeed))
  /\ (Returned /\ content = Ex_comment)
       => /\ Len(tokenlist) = 3
          /\ tokenlist[1].pos = {IS_AT_BOL, WS_BEFORE}
          /\ tokenlist[2].pos = {WS_BEFORE, LF_AFTER}
  /\ NoBlanks
       => \A k \in DOMAIN Assembled :
            (IsToken(Assembled[k]) /\ AfterWhitespaceRun(PosOf(k)))
              => WS_BEFORE \in Assembled[k].pos

====
